---- MODULE Spec2Model ----
(***************************************************************************)
(* PatchMon agent: the serve process (runService, wsLoop, connectOnce),    *)
(* the report cycle (sendReport) and the self update (updateAgent).        *)
(***************************************************************************)
EXTENDS Integers, Sequences, FiniteSets, TLC

(***************************************************************************)
(* Bounds of the model.                                                    *)
(***************************************************************************)
\* frames the server pushes over the websocket in one behaviour
MaxFrames == 2
\* depth of the call stack sendReport -> updateAgent -> sendReport -> ...
MaxDepth == 2
\* time.Sleep(backoff) calls of wsLoop in one behaviour
MaxAttempts == 7
\* the same where the dispatcher's handling of the messages is explored
MaxReconnects == 1
\* minutes of a ticker period that pass one by one; the rest of the period
\* passes in one step
FineMinutes == 1
\* capacity of the messages channel; make(chan wsMsg, 10) in the source,
\* scaled down so that a full channel is reached within MaxFrames
MsgCap == 1
\* frames of the call stack kept where its depth is not bounded
MaxNest == 4
\* frames the server pushes where the results of the calls are recorded
MaxActFrames == 1

(***************************************************************************)
(* time.Duration: a signed 64-bit count of nanoseconds.  A value is kept   *)
(* exactly as <<m, s, n>> = m minutes + s seconds + n nanoseconds with     *)
(* 0 <= s < 60 and 0 <= n < 10^9 (m carries the sign).                     *)
(***************************************************************************)
NanosPerSecond == 1000000000
SecondsPerMinute == 60
\* 2^63 ns = 153722867 min 16 s 854775808 ns
Two63 == <<153722867, 16, 854775808>>
\* 2^64 ns = 307445734 min 33 s 709551616 ns
Two64 == <<307445734, 33, 709551616>>

DurGeq(a, b) ==
    \/ a[1] > b[1]
    \/ a[1] = b[1] /\ a[2] > b[2]
    \/ a[1] = b[1] /\ a[2] = b[2] /\ a[3] >= b[3]

DurSub(a, b) ==
    LET n  == a[3] - b[3]
        bn == IF n < 0 THEN 1 ELSE 0
        s  == a[2] - b[2] - bn
        bs == IF s < 0 THEN 1 ELSE 0
    IN  << a[1] - b[1] - bs,
           IF s < 0 THEN s + SecondsPerMinute ELSE s,
           IF n < 0 THEN n + NanosPerSecond ELSE n >>

DurAdd(a, b) ==
    LET n  == a[3] + b[3] - NanosPerSecond
        cn == IF n >= 0 THEN 1 ELSE 0
        s  == a[2] + b[2] + cn
        cs == IF s >= SecondsPerMinute THEN 1 ELSE 0
    IN  << a[1] + b[1] + cs,
           IF s >= SecondsPerMinute THEN s - SecondsPerMinute ELSE s,
           IF n >= 0 THEN n ELSE n + NanosPerSecond >>

DurZero == <<0, 0, 0>>
OneMinute == <<1, 0, 0>>
DurPositive(d) == d[1] > 0 \/ (d[1] = 0 /\ (d[2] > 0 \/ d[3] > 0))

\* int64 wrap-around of a non-negative product
RECURSIVE Wrap64(_)
Wrap64(v) == IF DurGeq(v, Two63) THEN Wrap64(DurSub(v, Two64)) ELSE v

\* time.Duration(i) * time.Minute for i > 0
MinutesToDuration(i) == Wrap64(<<i, 0, 0>>)

(***************************************************************************)
(* State.                                                                  *)
(***************************************************************************)
VARIABLES
    dpc,        \* runService: "start", "boot" (initial report), "select",
                \* "busy" (an action of the loop runs), "exit", "panic"
    stack,      \* call stack of the goroutine running sendReport/updateAgent
    ticker,     \* the time.Ticker in use: [d, rem, c], or NoTicker
    messages,   \* chan wsMsg: the queued messages, oldest first
    serverCfg,  \* cfgManager.GetConfig().PatchmonServer: "" or a URL
    wpc,        \* wsLoop: "off", "connect", "read", "send", "sleep"
    backoff,    \* wsLoop's backoff, in seconds
    pend,       \* the wsMsg connectOnce is sending on out (wpc = "send")
    nFrames,    \* frames the server has pushed so far
    env,        \* what the environment does in this behaviour: frames and
                \* sleeps are the most frames and sleeps (live: sleeps and
                \* nested calls are not bounded; results: the history of
                \* the calls' results is kept; conn: the history of the
                \* connections is kept; missed: the fires an action misses are
                \* counted); root, creds and cfg say
                \* whether the process runs as root and whether
                \* LoadCredentials and LoadConfig succeed
    \* ---- history, read by the properties only
    nSent,      \* messages connectOnce has put on the channel
    nTaken,     \* messages runService has received from the channel
    nDone,      \* messages whose handling has finished
    cause,      \* the event runService acted on last: a wsMsg (without seq),
                \* Event("tick"), or Event("boot") for the initial report;
                \* err is what the call made for it returned ("err", "nil")
                \* and sub what the call nested in that one had returned
    nSleeps,    \* time.Sleep(backoff) calls so far
    lastWait,   \* seconds slept by the latest time.Sleep(backoff)
    okWait,     \* lastWait when the latest successful dial was made
    obs,        \* since the latest valid settings_update: [i, elapsed, fires]
    \* ---- the updateAgent run on the file system
    files,      \* path -> content, NoFile when the path does not exist
    upd,        \* per process, the stack of running updateAgent calls:
                \* [pc, data, ts] and the history fields exe0, reason, removed
    clock,      \* time.Now(), in seconds
    nUpd,       \* updateAgent calls made so far
    \* ---- the connection of connectOnce
    dl,         \* seconds left to the read deadline of conn
    conns,      \* connections open (dialled and not closed)
    pingers,    \* ping goroutines running (history, kept where env.conn)
    connHist,   \* closedAt: nSleeps when the latest connection was closed,
                \* -1 before; pongs: whether the latest connection has seen
                \* a pong; timedOut: whether it was closed at its read
                \* deadline (history, kept where env.conn)
    \* ---- the functions checked on their own
    pin,        \* the arguments of the call
    pout        \* what it returned

serveVars == <<dpc, stack, ticker, messages, serverCfg, wpc, backoff, pend, nFrames, env>>
histVars  == <<nSent, nTaken, nDone, cause, nSleeps, lastWait, okWait, obs>>
fsVars    == <<files, upd, clock, nUpd>>
connVars  == <<dl, conns, pingers, connHist>>
pureVars  == <<pin, pout>>
otherVars == <<fsVars, connVars, pureVars>>
vars      == <<serveVars, histVars, fsVars, connVars, pureVars>>

NoTicker == [d |-> DurZero, rem |-> DurZero, c |-> 0]
NoMsg    == [kind |-> "none", interval |-> 0, force |-> FALSE, seq |-> 0]
NoObs    == [i |-> 0, elapsed |-> 0, fires |-> 0]
NoCall   == [fn |-> "none"]
NoConnHist == [closedAt |-> -1, pongs |-> FALSE, timedOut |-> FALSE]
\* an event that is no message: "none", "boot", "tick"
Event(kind) ==
    [kind |-> kind, interval |-> 0, force |-> FALSE, err |-> "none", sub |-> "none",
     fires |-> 0]

\* intervalMinutes := 60
DefaultInterval == 60
\* the smallest i for which time.Duration(i) * time.Minute leaves int64
OverflowInterval == Two63[1] + 1
\* update_interval / updateInterval values the server sends
Intervals == {-1, 0, 2, OverflowInterval}

(***************************************************************************)
(* time.Ticker: period d, time to the next fire rem, and the channel C     *)
(* (capacity 1: a tick that finds C full is dropped).                      *)
(***************************************************************************)
NewTickerPanics(d) == ~DurPositive(d)
NewTicker(d) == [d |-> d, rem |-> d, c |-> 0]

\* the fires that are due: [t: the ticker after them, n: how many]
\* mutant: the channel of the ticker holds every tick not yet taken
DeliverQueued(c) == c + 1
\* the send of a tick on ticker.C, a channel of capacity 1: the tick is
\* dropped when one is waiting there already
Deliver(c) == 1

RECURSIVE FireDue(_, _)
FireDue(t, n) ==
    IF DurPositive(t.rem) THEN [t |-> t, n |-> n]
    ELSE FireDue([t EXCEPT !.rem = DurAdd(t.rem, t.d), !.c = Deliver(t.c)], n + 1)

\* one minute passes
AfterMinute(t) == FireDue([t EXCEPT !.rem = DurSub(t.rem, OneMinute)], 0)

(***************************************************************************)
(* Call stack of sendReport / updateAgent.                                 *)
(***************************************************************************)
\* sub: what the call this frame made returned ("none" before it returns)
Frame(fn, root) == [fn |-> fn, pc |-> "run", root |-> root, sub |-> "none"]
Top == stack[Len(stack)]
Pop(st) == SubSeq(st, 1, Len(st) - 1)
SetTopPc(st, pc) == [st EXCEPT ![Len(st)].pc = pc]

\* the results of the calls are history: kept where env.results
Kept(err) == IF env.results THEN err ELSE "none"

\* mutant: an error returned to runService is returned by runService
ReturnOrExit(err) ==
    /\ IF Len(stack) = 1
       THEN /\ stack' = <<>>
            /\ dpc' = IF err = "err" THEN "exit" ELSE "select"
            /\ wpc' = IF dpc = "boot" THEN "connect" ELSE wpc
            /\ nDone' = nTaken
            /\ cause' = [cause EXCEPT !.err = Kept(err), !.sub = Top.sub]
       ELSE /\ stack' = [Pop(stack) EXCEPT ![Len(stack) - 1].sub = Kept(err)]
            /\ UNCHANGED <<dpc, wpc, nDone, cause>>
\* the function returns err ("err" or "nil") to its caller, which keeps it in
\* its `if err := ...`; runService logs the error of the call it made
\* (if err != nil { logger...Warn }) and is back at its select
Return(err) ==
    /\ IF Len(stack) = 1
       THEN /\ stack' = <<>>
            /\ dpc' = "select"
            /\ wpc' = IF dpc = "boot" THEN "connect" ELSE wpc
            /\ nDone' = nTaken
            /\ cause' = [cause EXCEPT !.err = Kept(err), !.sub = Top.sub]
       ELSE /\ stack' = [Pop(stack) EXCEPT ![Len(stack) - 1].sub = Kept(err)]
            /\ UNCHANGED <<dpc, wpc, nDone, cause>>

Alive == dpc \in {"boot", "select", "busy"}

(***************************************************************************)
(* runService up to the loop.                                              *)
(***************************************************************************)
\* mutant: zero passes the check
IntervalValidOrZero(i) == i >= 0
\* if m.interval > 0 / resp.UpdateInterval > 0
IntervalValid(i) == i > 0

\* mutant: serve does not check for root
StartupFailsOnCredentials(root, credsOk) == ~credsOk
\* checkRoot() in RunE and LoadCredentials() in runService: either error is
\* returned to main, which exits with code 1
StartupFails(root, credsOk) == ~root \/ ~credsOk

\* inputs: checkRoot, LoadCredentials, GetUpdateInterval (err or a value)
Boot(root, credsOk, respErr, respInterval) ==
    /\ dpc = "start"
    /\ IF StartupFails(root, credsOk)
       THEN /\ dpc' = "exit"
            /\ UNCHANGED <<stack, ticker, cause>>
       ELSE LET intervalMinutes ==
                    IF ~respErr /\ IntervalValid(respInterval)
                    THEN respInterval ELSE DefaultInterval
                d == MinutesToDuration(intervalMinutes)
            IN  IF NewTickerPanics(d)
                THEN /\ dpc' = "panic"
                     /\ UNCHANGED <<stack, ticker, cause>>
                ELSE /\ ticker' = NewTicker(d)
                     /\ stack' = <<Frame("sendReport", TRUE)>>
                     /\ dpc' = "boot"
                     /\ cause' = Event("boot")
    /\ UNCHANGED <<messages, serverCfg, wpc, backoff, pend, nFrames, env>>
    /\ UNCHANGED <<nSent, nTaken, nDone, nSleeps, lastWait, okWait, obs>>
    /\ UNCHANGED otherVars

(***************************************************************************)
(* sendReport and updateAgent, as the serve process sees them.             *)
(***************************************************************************)
\* frames the model keeps of one call stack
Depth == IF env.live THEN MaxNest ELSE MaxDepth
\* sendReport and updateAgent call each other, so the frames between the
\* first and the top ones repeat: <<s1, U, S, U, S, ...>>.  Where the depth is
\* not bounded the model drops the pair above the first frame once the stack
\* passes Depth; a return through dropped frames is one step.
Fold(s) == <<s[1]>> \o SubSeq(s, 4, Len(s))
\* the top frame calls fn and waits at pc
Call(st, pc, fn) ==
    LET s == Append(SetTopPc(st, pc), Frame(fn, FALSE))
    IN  IF Len(s) > Depth THEN Fold(s) ELSE s
CanCall == env.live \/ Len(stack) < MaxDepth

\* mutant: the error of the update is returned by sendReport
SendReportResultOfUpdate(sub) == sub
\* sendReport after `if err := updateAgent(); err != nil { Warn } else { Info }`:
\* return nil
SendReportResult(sub) == "nil"
\* updateAgent after `if err := sendReport(); err != nil { Warn } else { Info }`:
\* return nil
UpdateAgentResult(sub) == "nil"

\* sendReport up to the response: "err" (a collection step or SendUpdate
\* failed), "ok" (accepted, no update hint), "hint" (accepted, ShouldUpdate)
SendReportRun(outcome) ==
    /\ Alive /\ stack # <<>>
    /\ Top.fn = "sendReport" /\ Top.pc = "run"
    /\ IF outcome = "hint"
       THEN /\ CanCall
            /\ stack' = Call(stack, "hint", "updateAgent")
            /\ UNCHANGED <<dpc, wpc, nDone, cause>>
       ELSE Return(IF outcome = "err" THEN "err" ELSE "nil")
    /\ UNCHANGED <<ticker, messages, serverCfg, backoff, pend, nFrames, env>>
    /\ UNCHANGED <<nSent, nTaken, nSleeps, lastWait, okWait, obs>>
    /\ UNCHANGED otherVars

\* the updateAgent called for the hint has returned (its error is logged)
SendReportAfterUpdate ==
    /\ Alive /\ stack # <<>>
    /\ Top.fn = "sendReport" /\ Top.pc = "hint"
    /\ Return(SendReportResult(Top.sub))
    /\ UNCHANGED <<ticker, messages, serverCfg, backoff, pend, nFrames, env>>
    /\ UNCHANGED <<nSent, nTaken, nSleeps, lastWait, okWait, obs>>
    /\ UNCHANGED otherVars

\* updateAgent up to the rename: "err" (a step failed), "renamed"
UpdateAgentRun(outcome) ==
    /\ Alive /\ stack # <<>>
    /\ Top.fn = "updateAgent" /\ Top.pc = "run"
    /\ IF outcome = "renamed"
       THEN /\ CanCall
            /\ stack' = Call(stack, "confirm", "sendReport")
            /\ UNCHANGED <<dpc, wpc, nDone, cause>>
       ELSE Return("err")
    /\ UNCHANGED <<ticker, messages, serverCfg, backoff, pend, nFrames, env>>
    /\ UNCHANGED <<nSent, nTaken, nSleeps, lastWait, okWait, obs>>
    /\ UNCHANGED otherVars

\* the confirmation sendReport has returned (its error is logged)
UpdateAgentAfterReport ==
    /\ Alive /\ stack # <<>>
    /\ Top.fn = "updateAgent" /\ Top.pc = "confirm"
    /\ Return(UpdateAgentResult(Top.sub))
    /\ UNCHANGED <<ticker, messages, serverCfg, backoff, pend, nFrames, env>>
    /\ UNCHANGED <<nSent, nTaken, nSleeps, lastWait, okWait, obs>>
    /\ UNCHANGED otherVars

(***************************************************************************)
(* The loop of runService: select on ticker.C and messages.                *)
(***************************************************************************)
\* mutant: events are also taken while an action runs
AtSelectOrBusy == dpc \in {"select", "busy"}
\* the goroutine is at the select statement
AtSelect == dpc = "select"

\* mutant: a settings_update also sends a report
CallsForReportOnSettings(m) ==
    CASE m.kind \in {"report_now", "settings_update"} -> "sendReport"
      [] m.kind = "update_agent" -> "updateAgent"
      [] m.kind = "update_notification" /\ m.force -> "updateAgent"
      [] OTHER -> "none"

\* mutant: an update_notification updates whatever its force flag
CallsForIgnoringForce(m) ==
    CASE m.kind = "report_now" -> "sendReport"
      [] m.kind \in {"update_agent", "update_notification"} -> "updateAgent"
      [] OTHER -> "none"

\* mutant: an update_notification is only logged
CallsForNotifyOnly(m) ==
    CASE m.kind = "report_now" -> "sendReport"
      [] m.kind = "update_agent" -> "updateAgent"
      [] OTHER -> "none"

\* what the switch on m.kind calls
CallsFor(m) ==
    CASE m.kind = "report_now" -> "sendReport"
      [] m.kind = "update_agent" -> "updateAgent"
      [] m.kind = "update_notification" /\ m.force -> "updateAgent"
      [] OTHER -> "none"

\* m := <-messages
Receive(m) ==
    /\ AtSelect
    /\ messages # <<>>
    /\ m = Head(messages)
    /\ messages' = Tail(messages)
    /\ nTaken' = nTaken + 1
    /\ cause' = [kind |-> m.kind, interval |-> m.interval, force |-> m.force,
                 err |-> "none", sub |-> "none", fires |-> 0]

\* the call the case makes, if any
\* mutant: the call is made twice
DispatchTwice(fn) ==
    IF fn = "none"
    THEN /\ UNCHANGED <<stack, dpc>>
         /\ nDone' = nTaken'
    ELSE /\ stack' = stack \o <<Frame(fn, TRUE), Frame(fn, TRUE)>>
         /\ dpc' = "busy"
         /\ UNCHANGED nDone
Dispatch(fn) ==
    IF fn = "none"
    THEN /\ UNCHANGED <<stack, dpc>>
         /\ nDone' = nTaken'
    ELSE /\ stack' = Append(stack, Frame(fn, TRUE))
         /\ dpc' = "busy"
         /\ UNCHANGED nDone

\* case <-ticker.C
TakeTick ==
    /\ AtSelect
    /\ ticker.c = 1
    /\ ticker' = [ticker EXCEPT !.c = 0]
    /\ stack' = Append(stack, Frame("sendReport", TRUE))
    /\ dpc' = "busy"
    /\ cause' = Event("tick")
    /\ UNCHANGED <<messages, serverCfg, wpc, backoff, pend, nFrames, env>>
    /\ UNCHANGED <<nSent, nTaken, nDone, nSleeps, lastWait, okWait, obs>>
    /\ UNCHANGED otherVars

\* case "settings_update"
HandleSettingsUpdate ==
    /\ messages # <<>>
    /\ LET m == Head(messages) IN
        /\ m.kind = "settings_update"
        /\ Receive(m)
        /\ IF IntervalValid(m.interval)
           THEN LET d == MinutesToDuration(m.interval)
                IN  /\ obs' = [i |-> m.interval, elapsed |-> 0, fires |-> 0]
                    /\ IF NewTickerPanics(d)
                       THEN /\ dpc' = "panic"
                            /\ UNCHANGED <<stack, ticker, nDone>>
                       ELSE /\ ticker' = NewTicker(d)
                            /\ Dispatch(CallsFor(m))
           ELSE /\ UNCHANGED <<ticker, obs>>
                /\ Dispatch(CallsFor(m))
    /\ UNCHANGED <<serverCfg, wpc, backoff, pend, nFrames, env>>
    /\ UNCHANGED <<nSent, nSleeps, lastWait, okWait>>
    /\ UNCHANGED otherVars

\* case "report_now", "update_agent", "update_notification"
HandleCall(kind) ==
    /\ messages # <<>>
    /\ LET m == Head(messages) IN
        /\ m.kind = kind
        /\ Receive(m)
        /\ Dispatch(CallsFor(m))
    /\ UNCHANGED <<ticker, serverCfg, wpc, backoff, pend, nFrames, env>>
    /\ UNCHANGED <<nSent, nSleeps, lastWait, okWait, obs>>
    /\ UNCHANGED otherVars

HandleReportNow == HandleCall("report_now")
HandleUpdateAgent == HandleCall("update_agent")
HandleUpdateNotification == HandleCall("update_notification")

(***************************************************************************)
(* Time: one minute passes for the ticker.                                 *)
(***************************************************************************)
\* the latest settings_update is watched until its first period is over
\* the fires that came due while the action for the latest event ran, up to
\* MaxMissed (history, kept where env.missed)
MaxMissed == 2
Missed(n) ==
    IF env.missed /\ dpc = "busy"
    THEN [cause EXCEPT !.fires = IF @ + n < MaxMissed THEN @ + n ELSE MaxMissed]
    ELSE cause

Observe(o, k, n) ==
    IF o.i = 0 \/ o.elapsed + k > o.i THEN NoObs
    ELSE [o EXCEPT !.elapsed = o.elapsed + k, !.fires = o.fires + n]

\* whole minutes of the current period that have passed
InPeriod(t) == t.d[1] - t.rem[1]

MinutePasses ==
    /\ Alive
    /\ InPeriod(ticker) < FineMinutes
    /\ LET r == AfterMinute(ticker)
       IN  /\ ticker' = r.t
           /\ obs' = Observe(obs, 1, r.n)
           /\ cause' = Missed(r.n)
    /\ UNCHANGED <<dpc, stack, messages, serverCfg, wpc, backoff, pend, nFrames, env>>
    /\ UNCHANGED <<nSent, nTaken, nDone, nSleeps, lastWait, okWait>>
    /\ UNCHANGED otherVars

\* the minutes up to the next fire pass: [t, n] as AfterMinute, k the minutes
RECURSIVE UntilFire(_, _)
UntilFire(t, k) ==
    LET r == AfterMinute(t)
    IN  IF r.n > 0 THEN [t |-> r.t, n |-> r.n, k |-> k + 1] ELSE UntilFire(r.t, k + 1)

RestOfPeriodPasses ==
    /\ Alive
    /\ InPeriod(ticker) >= FineMinutes
    /\ LET r == UntilFire(ticker, 0)
       IN  /\ ticker' = r.t
           /\ obs' = Observe(obs, r.k, r.n)
           /\ cause' = Missed(r.n)
    /\ UNCHANGED <<dpc, stack, messages, serverCfg, wpc, backoff, pend, nFrames, env>>
    /\ UNCHANGED <<nSent, nTaken, nDone, nSleeps, lastWait, okWait>>
    /\ UNCHANGED otherVars

(***************************************************************************)
(* Frames on the websocket and their decoding in connectOnce.              *)
(***************************************************************************)
\* a frame: json says whether json.Unmarshal succeeds, fields are the keys
\* the object carries
FrameOf(type, fields) == [json |-> TRUE, type |-> type, fields |-> fields]
NoFields == [k \in {} |-> 0]
Malformed == [json |-> FALSE, type |-> "", fields |-> NoFields]
\* an object with a known type and a field of the wrong JSON type:
\* json.Unmarshal returns an UnmarshalTypeError
Mistyped == [json |-> FALSE, type |-> "report_now", fields |-> NoFields]

Frames ==
    {Malformed, Mistyped, FrameOf("pong", NoFields),
     FrameOf("report_now", NoFields), FrameOf("update_agent", NoFields),
     FrameOf("settings_update", NoFields), FrameOf("update_notification", NoFields)}
    \cup {FrameOf("settings_update", [k \in {"update_interval"} |-> i]) : i \in Intervals}
    \cup {FrameOf("update_notification", [k \in {"force"} |-> b]) : b \in BOOLEAN}

\* the payload struct after json.Unmarshal: a missing key leaves the zero value
Payload(f) ==
    [Type |-> f.type,
     UpdateInterval |-> IF "update_interval" \in DOMAIN f.fields
                        THEN f.fields["update_interval"] ELSE 0,
     Force |-> IF "force" \in DOMAIN f.fields THEN f.fields["force"] ELSE FALSE]

\* mutant: every object that decodes goes to the switch's cases
RecognizedWhateverType(f) == f.json
\* if json.Unmarshal(data, &payload) == nil { switch payload.Type { four cases
Recognized(f) ==
    /\ f.json
    /\ f.type \in {"settings_update", "report_now", "update_agent", "update_notification"}

\* the wsMsg the switch on payload.Type builds
MsgOf(p) ==
    CASE p.Type = "settings_update" ->
            [kind |-> "settings_update", interval |-> p.UpdateInterval, force |-> FALSE]
      [] p.Type = "update_notification" ->
            [kind |-> "update_notification", interval |-> 0, force |-> p.Force]
      [] OTHER -> [kind |-> p.Type, interval |-> 0, force |-> FALSE]

\* mutant: the message is queued twice
ChanSendTwice(q, m) == Append(Append(q, m), m)
\* out <- m on a channel with room
ChanSend(q, m) == Append(q, m)
ChanHasRoom(q) == Len(q) < MsgCap

(***************************************************************************)
(* wsLoop and connectOnce.                                                 *)
(***************************************************************************)
\* if backoff < 30*time.Second { backoff *= 2 }
BackoffLimit == 30
NextBackoff(b) == IF b < BackoffLimit THEN b * 2 ELSE b

\* mutant: a successful dial resets the backoff
BackoffResetOnDial(b, ok) == IF ok THEN 1 ELSE b
\* backoff is a local of wsLoop: connectOnce and its outcome leave it alone
BackoffOnDial(b, ok) == b

WsAlive == dpc \in {"select", "busy"}

\* mutant: wsLoop gives up after MaxReconnects sleeps
WsLoopGivesUp(n) == n < MaxReconnects
\* `for {` of wsLoop: no condition, no break, no return
WsLoopGoesOn(n) == TRUE

\* server == "": connectOnce returns nil
ConnectNoServer ==
    /\ WsAlive /\ wpc = "connect"
    /\ serverCfg = ""
    /\ wpc' = "sleep"
    /\ UNCHANGED <<dpc, stack, ticker, messages, serverCfg, backoff, pend, nFrames, env>>
    /\ UNCHANGED histVars
    /\ UNCHANGED otherVars

ReadTimeout == 90
PingPeriod == 30
\* history kept only where the environment asks for it
KeptConn(new, old) == IF env.conn THEN new ELSE old

\* mutant: connectOnce returns without closing conn
ConnsAfterReturnLeftOpen(n) == n
\* defer func() { _ = conn.Close() }()
ConnsAfterReturn(n) == n - 1

\* the ping goroutines once connectOnce has returned: `for range t.C` has no
\* exit, nothing stops t and WriteControl's error is dropped, so the
\* goroutine of the closed connection runs on
PingersAfterReturn(n) == n

\* mutant: a data frame moves the read deadline as a pong does
DeadlineAfterFrameExtended(d) == ReadTimeout
\* the read deadline once ReadMessage has returned a data frame: nothing in
\* the loop sets it
DeadlineAfterFrame(d) == d

\* dialer.Dial: err -> return err; otherwise the ping goroutine is started,
\* the read deadline is set and the read loop starts
Dial(ok) ==
    /\ WsAlive /\ wpc = "connect"
    /\ serverCfg # ""
    /\ wpc' = IF ok THEN "read" ELSE "sleep"
    /\ backoff' = BackoffOnDial(backoff, ok)
    /\ okWait' = IF ok THEN lastWait ELSE okWait
    /\ IF ok
       THEN /\ conns' = conns + 1
            /\ dl' = ReadTimeout
            /\ pingers' = KeptConn(pingers + 1, pingers)
            /\ connHist' = KeptConn([connHist EXCEPT !.pongs = FALSE,
                                                     !.timedOut = FALSE], connHist)
       ELSE UNCHANGED connVars
    /\ UNCHANGED <<dpc, stack, ticker, messages, serverCfg, pend, nFrames, env>>
    /\ UNCHANGED <<nSent, nTaken, nDone, cause, nSleeps, lastWait, obs>>
    /\ UNCHANGED <<fsVars, pureVars>>

\* conn.ReadMessage returns a data frame, read before the deadline
ReadFrame(f) ==
    /\ WsAlive /\ wpc = "read"
    /\ dl > 0
    /\ nFrames < env.frames
    /\ nFrames' = nFrames + 1
    /\ IF Recognized(f)
       THEN /\ pend' = MsgOf(Payload(f))
            /\ wpc' = "send"
       ELSE UNCHANGED <<pend, wpc>>
    /\ dl' = DeadlineAfterFrame(dl)
    /\ UNCHANGED <<conns, pingers, connHist>>
    /\ UNCHANGED <<dpc, stack, ticker, messages, serverCfg, backoff, env>>
    /\ UNCHANGED histVars
    /\ UNCHANGED <<fsVars, pureVars>>

\* conn.ReadMessage meets a pong before the deadline: the pong handler sets
\* the read deadline and ReadMessage reads on
Pong ==
    /\ WsAlive /\ wpc = "read"
    /\ dl > 0
    /\ dl' = ReadTimeout
    /\ connHist' = KeptConn([connHist EXCEPT !.pongs = TRUE], connHist)
    /\ UNCHANGED <<conns, pingers>>
    /\ UNCHANGED <<serveVars, histVars, fsVars, pureVars>>

\* a ping period passes on an open connection whose read deadline is ahead
PingPeriodPasses ==
    /\ WsAlive /\ conns > 0
    /\ dl > 0
    /\ dl' = dl - PingPeriod
    /\ UNCHANGED <<conns, pingers, connHist>>
    /\ UNCHANGED <<serveVars, histVars, fsVars, pureVars>>

\* out <- wsMsg{...}: blocks while the channel is full
SendMsg ==
    /\ WsAlive /\ wpc = "send"
    /\ ChanHasRoom(messages)
    /\ messages' = ChanSend(messages, [kind |-> pend.kind, interval |-> pend.interval,
                                       force |-> pend.force, seq |-> nSent + 1])
    /\ nSent' = nSent + 1
    /\ pend' = NoMsg
    /\ wpc' = "read"
    /\ UNCHANGED <<dpc, stack, ticker, serverCfg, backoff, nFrames, env>>
    /\ UNCHANGED <<nTaken, nDone, cause, nSleeps, lastWait, okWait, obs>>
    /\ UNCHANGED otherVars

\* conn.ReadMessage returns an error (closed, reset, read deadline):
\* connectOnce returns it and the deferred conn.Close() runs
ReadError ==
    /\ WsAlive /\ wpc = "read"
    /\ wpc' = "sleep"
    /\ conns' = ConnsAfterReturn(conns)
    /\ dl' = 0
    /\ pingers' = PingersAfterReturn(pingers)
    /\ connHist' = KeptConn([connHist EXCEPT !.closedAt = nSleeps,
                                             !.timedOut = (dl = 0)], connHist)
    /\ UNCHANGED <<dpc, stack, ticker, messages, serverCfg, backoff, pend, nFrames, env>>
    /\ UNCHANGED histVars
    /\ UNCHANGED <<fsVars, pureVars>>

\* time.Sleep(backoff), then the doubling; nSleeps counts up to env.sleeps
Sleep ==
    /\ WsAlive /\ wpc = "sleep"
    /\ WsLoopGoesOn(nSleeps)
    /\ env.live \/ nSleeps < env.sleeps
    /\ lastWait' = backoff
    /\ nSleeps' = IF nSleeps < env.sleeps THEN nSleeps + 1 ELSE nSleeps
    /\ backoff' = NextBackoff(backoff)
    /\ wpc' = "connect"
    /\ UNCHANGED <<dpc, stack, ticker, messages, serverCfg, pend, nFrames, env>>
    /\ UNCHANGED <<nSent, nTaken, nDone, cause, okWait, obs>>
    /\ UNCHANGED otherVars

(***************************************************************************)
(* updateAgent on the file system (version_update.go).                     *)
(***************************************************************************)
\* updateAgent calls in one behaviour
MaxUpdates == 2
\* seconds the clock advances in one behaviour
MaxClock == 1

NoFile == "absent"
\* downloads: p1 and p2 run, bad does not
Payloads == {"p1", "p2", "bad"}
Runs(c) == c \in {"p1", "p2"}
\* what a failed write leaves of the data
Partial == "partial"

ExePath == <<"exe">>
\* mutant: the download is written over the executable
TempPathInPlace == ExePath
\* tempPath := executablePath + ".new"
TempPath == <<"exe.new">>
\* fmt.Sprintf("%s.backup.%s", executablePath, time.Now().Format("20060102_150405"))
BackupPath(ts) == <<"exe.backup", ts>>
Paths == {ExePath, TempPath} \cup {BackupPath(t) : t \in 0..MaxClock}
Procs == {"cli", "serve"}

\* os.WriteFile(path, data, 0755): "ok"; "open" (the file could not be opened:
\* nothing changes); "write" (opened and truncated, the write failed)
WriteFile(fs, path, data, outcome) ==
    CASE outcome = "ok" -> [fs EXCEPT ![path] = data]
      [] outcome = "write" -> [fs EXCEPT ![path] = Partial]
      [] OTHER -> fs

\* mutant: the removal reports success and leaves the file
RemoveKeeps(fs, path, ok) == fs
\* os.Remove(path)
Remove(fs, path, ok) == IF ok THEN [fs EXCEPT ![path] = NoFile] ELSE fs

\* os.Rename(from, to), successful
Rename(fs, from, to) == [fs EXCEPT ![to] = fs[from], ![from] = NoFile]

\* mutant: the copy does not carry the bytes read
CopyFileShort(fs, src, dst, outcome) == WriteFile(fs, dst, Partial, outcome)
\* copyFile(src, dst), once os.ReadFile(src) has succeeded
CopyFile(fs, src, dst, outcome) == WriteFile(fs, dst, fs[src], outcome)

\* the statements of updateAgent, in the order of the function body
Steps == <<"path", "release", "asset", "download", "backup", "temp",
           "validate", "rename", "renamed">>
StepNo(pc) == CHOOSE k \in DOMAIN Steps : Steps[k] = pc
\* mutant: the temp file is renamed as soon as it is written
StepAfterUnvalidated(pc) == IF pc = "temp" THEN "rename" ELSE Steps[StepNo(pc) + 1]
\* the statement reached when the one at pc has succeeded
StepAfter(pc) == Steps[StepNo(pc) + 1]

\* done: the statements of this call that have succeeded, in order (history);
\* exe0, fs0: the executable and the whole file system when the call began;
\* validated: what the temp file held when its check-version run succeeded
\* (history)
NewAttempt == [pc |-> "path", data |-> NoFile, ts |-> 0, done |-> <<>>,
               exe0 |-> files[ExePath], fs0 |-> files, reason |-> "",
               removed |-> FALSE, validated |-> NoFile]

UTop(p) == upd[p][Len(upd[p])]
At(p, pc) == upd[p] # <<>> /\ UTop(p).pc = pc
\* the top call moves on
UGoto(p, pc) == upd' = [upd EXCEPT ![p][Len(upd[p])].pc = pc]
\* the statement of the top call has succeeded
UDone(p) ==
    upd' = [upd EXCEPT ![p][Len(upd[p])].pc = StepAfter(@),
                       ![p][Len(upd[p])].done = Append(@, UTop(p).pc)]
\* the top call is about to return an error
UFail(p, reason) ==
    upd' = [upd EXCEPT ![p][Len(upd[p])].pc = "return",
                       ![p][Len(upd[p])].reason = reason]

\* updateAgent is called: by the update-agent command or the serve process
StartUpdate(p) ==
    /\ upd[p] = <<>>
    /\ nUpd < MaxUpdates
    /\ nUpd' = nUpd + 1
    /\ upd' = [upd EXCEPT ![p] = <<NewAttempt>>]
    /\ UNCHANGED <<files, clock>>
    /\ UNCHANGED <<serveVars, histVars, connVars, pureVars>>

\* os.Executable()
ResolvePath(p, ok) ==
    /\ At(p, "path")
    /\ IF ok THEN UDone(p) ELSE UFail(p, "path")
    /\ UNCHANGED <<files, clock, nUpd>>
    /\ UNCHANGED <<serveVars, histVars, connVars, pureVars>>

\* getLatestRelease()
GetRelease(p, ok) ==
    /\ At(p, "release")
    /\ IF ok THEN UDone(p) ELSE UFail(p, "release")
    /\ UNCHANGED <<files, clock, nUpd>>
    /\ UNCHANGED <<serveVars, histVars, connVars, pureVars>>

\* the loop over release.Assets; downloadURL == "" when none matches
FindAsset(p, found) ==
    /\ At(p, "asset")
    /\ IF found THEN UDone(p) ELSE UFail(p, "asset")
    /\ UNCHANGED <<files, clock, nUpd>>
    /\ UNCHANGED <<serveVars, histVars, connVars, pureVars>>

\* downloadBinary(downloadURL)
Download(p, ok, data) ==
    /\ At(p, "download")
    /\ IF ok
       THEN upd' = [upd EXCEPT ![p][Len(upd[p])].pc = StepAfter(@),
                               ![p][Len(upd[p])].done = Append(@, UTop(p).pc),
                               ![p][Len(upd[p])].data = data]
       ELSE UFail(p, "download")
    /\ UNCHANGED <<files, clock, nUpd>>
    /\ UNCHANGED <<serveVars, histVars, connVars, pureVars>>

\* backupPath from time.Now(), then copyFile(executablePath, backupPath)
Backup(p, readOk, outcome) ==
    /\ At(p, "backup")
    /\ IF ~readOk \/ files[ExePath] = NoFile
       THEN /\ UFail(p, "backup")
            /\ UNCHANGED files
       ELSE /\ files' = CopyFile(files, ExePath, BackupPath(clock), outcome)
            /\ IF outcome = "ok"
               THEN upd' = [upd EXCEPT ![p][Len(upd[p])].pc = StepAfter(@),
                                       ![p][Len(upd[p])].done = Append(@, UTop(p).pc),
                                       ![p][Len(upd[p])].ts = clock]
               ELSE upd' = [upd EXCEPT ![p][Len(upd[p])].pc = "return",
                                       ![p][Len(upd[p])].reason = "backup",
                                       ![p][Len(upd[p])].ts = clock]
    /\ UNCHANGED <<clock, nUpd>>
    /\ UNCHANGED <<serveVars, histVars, connVars, pureVars>>

\* os.WriteFile(tempPath, newAgentData, 0755)
WriteTemp(p, outcome) ==
    /\ At(p, "temp")
    /\ files' = WriteFile(files, TempPath, UTop(p).data, outcome)
    /\ IF outcome = "ok" THEN UDone(p) ELSE UFail(p, "temp")
    /\ UNCHANGED <<clock, nUpd>>
    /\ UNCHANGED <<serveVars, histVars, connVars, pureVars>>

\* exec.Command(tempPath, "check-version").Run(): a file that does not run
\* fails; one that runs may still exit non-zero (its check needs the network).
\* On failure os.Remove(tempPath), whose error is only logged.
Validate(p, exitOk, removeOk) ==
    /\ At(p, "validate")
    /\ IF Runs(files[TempPath]) /\ exitOk
       THEN /\ upd' = [upd EXCEPT ![p][Len(upd[p])].pc = StepAfter(@),
                                  ![p][Len(upd[p])].done = Append(@, UTop(p).pc),
                                  ![p][Len(upd[p])].validated = files[TempPath]]
            /\ UNCHANGED files
       ELSE /\ files' = Remove(files, TempPath, removeOk)
            /\ upd' = [upd EXCEPT ![p][Len(upd[p])].pc = "return",
                                  ![p][Len(upd[p])].reason = "validation",
                                  ![p][Len(upd[p])].removed = removeOk]
    /\ UNCHANGED <<clock, nUpd>>
    /\ UNCHANGED <<serveVars, histVars, connVars, pureVars>>

\* os.Rename(tempPath, executablePath); on failure os.Remove(tempPath)
RenameStep(p, ok, removeOk) ==
    /\ At(p, "rename")
    /\ IF ok /\ files[TempPath] # NoFile
       THEN /\ files' = Rename(files, TempPath, ExePath)
            /\ UDone(p)
       ELSE /\ files' = Remove(files, TempPath, removeOk)
            /\ upd' = [upd EXCEPT ![p][Len(upd[p])].pc = "return",
                                  ![p][Len(upd[p])].reason = "rename",
                                  ![p][Len(upd[p])].removed = removeOk]
    /\ UNCHANGED <<clock, nUpd>>
    /\ UNCHANGED <<serveVars, histVars, connVars, pureVars>>

\* sendReport() after the rename: "err", "ok", or "hint", where sendReport
\* calls updateAgent again before it returns
ConfirmReport(p, outcome) ==
    /\ At(p, "renamed")
    /\ IF outcome = "hint"
       THEN /\ nUpd < MaxUpdates
            /\ nUpd' = nUpd + 1
            /\ upd' = [upd EXCEPT ![p] =
                    Append([upd[p] EXCEPT ![Len(upd[p])].pc = "confirm"], NewAttempt)]
       ELSE /\ UGoto(p, "return")
            /\ UNCHANGED nUpd
    /\ UNCHANGED <<files, clock>>
    /\ UNCHANGED <<serveVars, histVars, connVars, pureVars>>

\* updateAgent returns: to the sendReport of the call below it, which
\* returns to that call in turn, or to the command
UReturn(p) ==
    /\ At(p, "return")
    /\ upd' = [upd EXCEPT ![p] =
            IF Len(upd[p]) = 1 THEN <<>>
            ELSE [Pop(upd[p]) EXCEPT ![Len(upd[p]) - 1].pc = "return"]]
    /\ UNCHANGED <<files, clock, nUpd>>
    /\ UNCHANGED <<serveVars, histVars, connVars, pureVars>>

SecondPasses ==
    /\ clock < MaxClock
    /\ clock' = clock + 1
    /\ UNCHANGED <<files, upd, nUpd>>
    /\ UNCHANGED <<serveVars, histVars, connVars, pureVars>>

(***************************************************************************)
(* crontab.Manager: the schedule of the cron entries.  A text is the       *)
(* sequence of its characters; a schedule is split into its five fields    *)
(* (minute, hour, day of month, month, day of week) at the blanks that     *)
(* Sprintf puts between them.                                              *)
(***************************************************************************)
MaxMinute == 59
MaxHour == 23
HourlyInterval == 60
DigitChars == <<"0", "1", "2", "3", "4", "5", "6", "7", "8", "9">>
DigitOf(c) == CHOOSE d \in 0..9 : DigitChars[d + 1] = c

\* fmt's %d of a natural number
RECURSIVE Itoa(_)
Itoa(n) ==
    IF n < 10 THEN <<DigitChars[n + 1]>>
    ELSE Itoa(n \div 10) \o <<DigitChars[(n % 10) + 1]>>

\* the number cron reads from a text of digits
RECURSIVE Atoi(_)
Atoi(t) ==
    IF t = <<>> THEN 0
    ELSE 10 * Atoi(SubSeq(t, 1, Len(t) - 1)) + DigitOf(t[Len(t)])

Star == <<"*">>
IsNumber(t) == t # <<>> /\ \A k \in DOMAIN t : \E d \in 0..9 : DigitChars[d + 1] = t[k]
IsStep(t) == Len(t) > 2 /\ t[1] = "*" /\ t[2] = "/" /\ IsNumber(SubSeq(t, 3, Len(t)))

\* cron(5): whether a field of a schedule lets the value v through, v
\* counted from the least value lo of the field
FieldMatches(t, v, lo) ==
    \/ t = Star
    \/ IsNumber(t) /\ Atoi(t) = v
    \/ IsStep(t) /\ Atoi(SubSeq(t, 3, Len(t))) > 0
                 /\ (v - lo) % Atoi(SubSeq(t, 3, Len(t))) = 0

\* cron(5): whether the schedule fires at minute mi of hour h, on a day that
\* the last three fields let through
Fires(schedule, h, mi) ==
    /\ Len(schedule) = 5
    /\ FieldMatches(schedule[1], mi, 0)
    /\ FieldMatches(schedule[2], h, 0)

\* mutant: the hourly schedule is put on the hour
CronScheduleOnTheHour(updateInterval, currentMinute) ==
    IF updateInterval = HourlyInterval
    THEN <<Itoa(0), Star, Star, Star, Star>>
    ELSE <<<<"*", "/">> \o Itoa(updateInterval), Star, Star, Star, Star>>
\* the schedule of generateCronEntries and generateCronEntry:
\* "%d * * * *" of the current minute for the hourly interval, "*/%d * * * *"
\* of the interval otherwise
CronSchedule(updateInterval, currentMinute) ==
    IF updateInterval = HourlyInterval
    THEN <<Itoa(currentMinute), Star, Star, Star, Star>>
    ELSE <<<<"*", "/">> \o Itoa(updateInterval), Star, Star, Star, Star>>

\* one line of the cron file: "<schedule> root <executable> <command> ..."
CronEntry(schedule, executablePath, command) ==
    [schedule |-> schedule, user |-> "root", exe |-> executablePath,
     command |-> command]

generateCronEntries(updateInterval, executablePath, currentMinute) ==
    <<CronEntry(CronSchedule(updateInterval, currentMinute), executablePath, "report"),
      CronEntry(CronSchedule(updateInterval, currentMinute), executablePath, "update-crontab")>>

generateCronEntry(updateInterval, executablePath, currentMinute) ==
    <<CronEntry(CronSchedule(updateInterval, currentMinute), executablePath, "update")>>

CronIntervals == {5, HourlyInterval, 90}
CronCalls ==
    [fn : {"generateCronEntries", "generateCronEntry"},
     updateInterval : CronIntervals, executablePath : {"/usr/local/bin/patchmon-agent"},
     currentMinute : 0..MaxMinute]

\* generateCronEntries(updateInterval, executablePath) at some minute
GenerateCronEntries ==
    /\ pin.fn = "generateCronEntries" /\ pout = NoCall
    /\ pout' = [fn |-> pin.fn,
                entries |-> generateCronEntries(pin.updateInterval,
                                pin.executablePath, pin.currentMinute)]
    /\ UNCHANGED <<pin, serveVars, histVars, fsVars, connVars>>

\* generateCronEntry(updateInterval, executablePath) at some minute
GenerateCronEntry ==
    /\ pin.fn = "generateCronEntry" /\ pout = NoCall
    /\ pout' = [fn |-> pin.fn,
                entries |-> generateCronEntry(pin.updateInterval,
                                pin.executablePath, pin.currentMinute)]
    /\ UNCHANGED <<pin, serveVars, histVars, fsVars, connVars>>

(***************************************************************************)
(* repositories.DNFManager: the repositories of one section of a .repo     *)
(* file.  A URL is the sequence of its characters.                         *)
(***************************************************************************)
MaxBaseurls == 2
HasPrefix(t, prefix) ==
    Len(t) >= Len(prefix) /\ SubSeq(t, 1, Len(prefix)) = prefix

supportedPrefixes ==
    <<<<"h", "t", "t", "p", ":", "/", "/">>, <<"h", "t", "t", "p", "s", ":", "/", "/">>, <<"f", "t", "p", ":", "/", "/">>,
      <<"m", "i", "r", "r", "o", "r", ":", "/", "/">>, <<"m", "i", "r", "r", "o", "r", "+">>>>

isValidRepoURL(url) ==
    \E k \in DOMAIN supportedPrefixes : HasPrefix(url, supportedPrefixes[k])

isSecureURL(url) == HasPrefix(url, <<"h", "t", "t", "p", "s", ":", "/", "/">>)

\* entry.enabled: a nil pointer when the section has no enabled key, a
\* pointer to true or to false otherwise
Unset == "nil"
IsEnabled(enabled) == IF enabled # Unset THEN enabled = "true" ELSE TRUE

\* the loop over entry.baseurls
RECURSIVE ValidBaseurls(_)
ValidBaseurls(baseurls) ==
    IF baseurls = <<>> THEN <<>>
    ELSE (IF isValidRepoURL(Head(baseurls)) THEN <<Head(baseurls)>> ELSE <<>>)
         \o ValidBaseurls(Tail(baseurls))

\* mutant: the mirrorlist is put before the metalink
RepoURLsMirrorlistFirst(entry) ==
    ValidBaseurls(entry.baseurls)
    \o (IF entry.mirrorlist # <<>> /\ isValidRepoURL(entry.mirrorlist)
        THEN <<entry.mirrorlist>> ELSE <<>>)
    \o (IF entry.metalink # <<>> /\ isValidRepoURL(entry.metalink)
        THEN <<entry.metalink>> ELSE <<>>)
\* urls: the valid baseurls as listed, then the metalink, then the mirrorlist
RepoURLs(entry) ==
    ValidBaseurls(entry.baseurls)
    \o (IF entry.metalink # <<>> /\ isValidRepoURL(entry.metalink)
        THEN <<entry.metalink>> ELSE <<>>)
    \o (IF entry.mirrorlist # <<>> /\ isValidRepoURL(entry.mirrorlist)
        THEN <<entry.mirrorlist>> ELSE <<>>)

Repository(entry, url) ==
    [Name |-> entry.id, URL |-> url, Distribution |-> entry.name,
     RepoType |-> "rpm", IsEnabled |-> IsEnabled(entry.enabled),
     IsSecure |-> isSecureURL(url)]

processRepoEntry(entry) ==
    IF ~IsEnabled(entry.enabled) THEN <<>>
    ELSE [k \in DOMAIN RepoURLs(entry) |-> Repository(entry, RepoURLs(entry)[k])]

HttpURL == <<"h", "t", "t", "p", ":", "/", "/", "a", ".", "e", "x", "a", "m", "p", "l", "e", "/", "o", "s">>
HttpsURL == <<"h", "t", "t", "p", "s", ":", "/", "/", "b", ".", "e", "x", "a", "m", "p", "l", "e", "/", "o", "s">>
FtpURL == <<"f", "t", "p", ":", "/", "/", "c", ".", "e", "x", "a", "m", "p", "l", "e", "/", "o", "s">>
FileURL == <<"f", "i", "l", "e", ":", "/", "/", "/", "m", "n", "t", "/", "o", "s">>
MirrorURL == <<"m", "i", "r", "r", "o", "r", "+", "h", "t", "t", "p", ":", "/", "/", "m", ".", "e", "x", "a", "m", "p", "l", "e", "/", "o", "s">>
NoURL == <<>>
URLs == {HttpURL, HttpsURL, FtpURL, FileURL, MirrorURL, NoURL}
SeqsUpTo(S, n) == UNION {[1..k -> S] : k \in 0..n}
RepoCalls ==
    [fn : {"processRepoEntry"}, id : {"baseos"}, name : {"BaseOS"},
     baseurls : SeqsUpTo(URLs, MaxBaseurls), metalink : URLs, mirrorlist : URLs,
     enabled : {Unset, "true", "false"}]

\* processRepoEntry(entry)
ProcessRepoEntry ==
    /\ pin.fn = "processRepoEntry" /\ pout = NoCall
    /\ pout' = [fn |-> pin.fn, repositories |-> processRepoEntry(pin)]
    /\ UNCHANGED <<pin, serveVars, histVars, fsVars, connVars>>

(***************************************************************************)
(* The serve process.                                                      *)
(***************************************************************************)

\* the state of every specification before its environment is chosen
StartProgram ==
    /\ dpc = "start"
    /\ stack = <<>>
    /\ ticker = NoTicker
    /\ messages = <<>>
    /\ serverCfg \in {"", "https://patchmon.example"}
    /\ wpc = "off"
    /\ backoff = 1
    /\ pend = NoMsg
    /\ nFrames = 0
    /\ nSent = 0 /\ nTaken = 0 /\ nDone = 0
    /\ cause = Event("none")
    /\ nSleeps = 0 /\ lastWait = 0
    /\ okWait = 0
    /\ obs = NoObs
    /\ files = [p \in Paths |-> IF p = ExePath THEN "v0" ELSE NoFile]
    /\ upd = [p \in Procs |-> <<>>]
    /\ clock = 0
    /\ nUpd = 0
    /\ dl = 0 /\ conns = 0 /\ pingers = 0 /\ connHist = NoConnHist

Start ==
    /\ StartProgram
    /\ pin = NoCall /\ pout = NoCall

\* the dispatcher under a server that pushes frames
Init ==
    /\ Start
    /\ env \in [frames : {MaxFrames}, sleeps : {MaxReconnects}, live : {FALSE}, results : {FALSE}, conn : {FALSE}, missed : {FALSE},
               root : BOOLEAN, creds : BOOLEAN, cfg : {TRUE}]

Next ==
    \/ \E respErr \in BOOLEAN : \E i \in Intervals :
            Boot(env.root, env.creds, respErr, i)
    \/ \E o \in {"err", "ok", "hint"} : SendReportRun(o)
    \/ SendReportAfterUpdate
    \/ \E o \in {"err", "renamed"} : UpdateAgentRun(o)
    \/ UpdateAgentAfterReport
    \/ TakeTick
    \/ HandleSettingsUpdate
    \/ HandleReportNow
    \/ HandleUpdateAgent
    \/ HandleUpdateNotification
    \/ MinutePasses
    \/ RestOfPeriodPasses
    \/ ConnectNoServer
    \/ \E ok \in BOOLEAN : Dial(ok)
    \/ \E f \in Frames : ReadFrame(f)
    \/ SendMsg
    \/ ReadError
    \/ Sleep

Spec == Init /\ [][Next]_vars

\* the dispatcher, with the results of its calls recorded
InitAct ==
    /\ Start
    /\ env = [frames |-> MaxActFrames, sleeps |-> MaxReconnects, live |-> FALSE,
              results |-> TRUE, conn |-> FALSE, missed |-> FALSE, root |-> TRUE, creds |-> TRUE, cfg |-> TRUE]

SpecAct == InitAct /\ [][Next]_vars

\* the serve process with the fires that an action misses counted
InitTick ==
    /\ Start
    /\ env = [frames |-> MaxActFrames, sleeps |-> MaxReconnects, live |-> FALSE,
              results |-> FALSE, conn |-> FALSE, missed |-> TRUE,
              root |-> TRUE, creds |-> TRUE, cfg |-> TRUE]

SpecTick == InitTick /\ [][Next]_vars

\* the serve process with the clock of its connection instead of the clock
\* of its ticker: pongs arrive or not, ping periods pass
MaxConnFrames == 1
MaxConnSleeps == 2
InitConn ==
    /\ Start
    /\ env = [frames |-> MaxConnFrames, sleeps |-> MaxConnSleeps, live |-> FALSE,
              results |-> FALSE, conn |-> TRUE, missed |-> FALSE, root |-> TRUE, creds |-> TRUE, cfg |-> TRUE]

NextConn ==
    \/ \E respErr \in BOOLEAN : \E i \in Intervals :
            Boot(env.root, env.creds, respErr, i)
    \/ \E o \in {"err", "ok", "hint"} : SendReportRun(o)
    \/ SendReportAfterUpdate
    \/ \E o \in {"err", "renamed"} : UpdateAgentRun(o)
    \/ UpdateAgentAfterReport
    \/ HandleSettingsUpdate
    \/ HandleReportNow
    \/ HandleUpdateAgent
    \/ HandleUpdateNotification
    \/ ConnectNoServer
    \/ \E ok \in BOOLEAN : Dial(ok)
    \/ \E f \in Frames : ReadFrame(f)
    \/ SendMsg
    \/ ReadError
    \/ Sleep
    \/ Pong
    \/ PingPeriodPasses

SpecConn == InitConn /\ [][NextConn]_vars

\* startup and wsLoop under a server that pushes nothing; without messages
\* an update runs only for the hint of a report
InitWs ==
    /\ Start
    /\ env \in [frames : {0}, sleeps : {MaxAttempts}, live : {FALSE}, results : {FALSE}, conn : {FALSE}, missed : {FALSE},
               root : BOOLEAN, creds : BOOLEAN, cfg : BOOLEAN]

NextWs ==
    \/ \E respErr \in BOOLEAN : \E i \in Intervals :
            Boot(env.root, env.creds, respErr, i)
    \/ \E o \in {"err", "ok", "hint"} : SendReportRun(o)
    \/ SendReportAfterUpdate
    \/ \E o \in {"err", "renamed"} : UpdateAgentRun(o)
    \/ TakeTick
    \/ MinutePasses
    \/ RestOfPeriodPasses
    \/ ConnectNoServer
    \/ \E ok \in BOOLEAN : Dial(ok)
    \/ ReadError
    \/ Sleep

SpecWs == InitWs /\ [][NextWs]_vars

\* the serve process left to run: wsLoop sleeps and dials without end and a
\* report may carry the update hint every time
InitLive ==
    /\ Start
    /\ env = [frames |-> 0, sleeps |-> MaxReconnects, live |-> TRUE, results |-> FALSE, conn |-> FALSE, missed |-> FALSE,
              root |-> TRUE, creds |-> TRUE, cfg |-> TRUE]

NextLive ==
    \/ \E respErr \in BOOLEAN : \E i \in Intervals :
            Boot(env.root, env.creds, respErr, i)
    \/ \E o \in {"err", "ok", "hint"} : SendReportRun(o)
    \/ SendReportAfterUpdate
    \/ \E o \in {"err", "renamed"} : UpdateAgentRun(o)
    \/ UpdateAgentAfterReport
    \/ TakeTick
    \/ MinutePasses
    \/ RestOfPeriodPasses
    \/ ConnectNoServer
    \/ \E ok \in BOOLEAN : Dial(ok)
    \/ ReadError
    \/ Sleep

\* the goroutine of runService takes its next step: every request of
\* sendReport and updateAgent ends within its timeout, with some outcome
DispatcherStep ==
    \/ \E respErr \in BOOLEAN : \E i \in Intervals :
            Boot(env.root, env.creds, respErr, i)
    \/ \E o \in {"err", "ok", "hint"} : SendReportRun(o)
    \/ SendReportAfterUpdate
    \/ \E o \in {"err", "renamed"} : UpdateAgentRun(o)
    \/ UpdateAgentAfterReport
    \/ TakeTick

\* the goroutine of wsLoop takes its next step when that is a return of
\* time.Sleep, of dialer.Dial or of connectOnce without a server; an open
\* connection may stay open
WsStep ==
    \/ ConnectNoServer
    \/ \E ok \in BOOLEAN : Dial(ok)
    \/ Sleep

SpecLive ==
    /\ InitLive /\ [][NextLive]_vars
    /\ WF_vars(DispatcherStep)
    /\ WF_vars(WsStep)

\* the update-agent command, run MaxUpdates times at most
InitUpdate ==
    /\ Start
    /\ env = [frames |-> 0, sleeps |-> 0, live |-> FALSE, results |-> FALSE, conn |-> FALSE, missed |-> FALSE,
              root |-> TRUE, creds |-> TRUE, cfg |-> TRUE]

NextUpdate ==
    \/ StartUpdate("cli")
    \/ \E ok \in BOOLEAN : ResolvePath("cli", ok)
    \/ \E ok \in BOOLEAN : GetRelease("cli", ok)
    \/ \E ok \in BOOLEAN : FindAsset("cli", ok)
    \/ \E ok \in BOOLEAN : \E data \in Payloads : Download("cli", ok, data)
    \/ \E ok \in BOOLEAN : \E o \in {"ok", "open", "write"} : Backup("cli", ok, o)
    \/ \E o \in {"ok", "open", "write"} : WriteTemp("cli", o)
    \/ \E ok, rm \in BOOLEAN : Validate("cli", ok, rm)
    \/ \E ok, rm \in BOOLEAN : RenameStep("cli", ok, rm)
    \/ \E o \in {"err", "ok", "hint"} : ConfirmReport("cli", o)
    \/ UReturn("cli")
    \/ SecondPasses

SpecUpdate == InitUpdate /\ [][NextUpdate]_vars

\* the update-agent command and the serve process, two processes on one
\* file system, each running updateAgent with its statements interleaved
\* with the other's
UpdateStep(p) ==
    \/ StartUpdate(p)
    \/ \E ok \in BOOLEAN : ResolvePath(p, ok)
    \/ \E ok \in BOOLEAN : GetRelease(p, ok)
    \/ \E ok \in BOOLEAN : FindAsset(p, ok)
    \/ \E ok \in BOOLEAN : \E data \in Payloads : Download(p, ok, data)
    \/ \E ok \in BOOLEAN : \E o \in {"ok", "open", "write"} : Backup(p, ok, o)
    \/ \E o \in {"ok", "open", "write"} : WriteTemp(p, o)
    \/ \E ok, rm \in BOOLEAN : Validate(p, ok, rm)
    \/ \E ok, rm \in BOOLEAN : RenameStep(p, ok, rm)
    \/ \E o \in {"err", "ok", "hint"} : ConfirmReport(p, o)
    \/ UReturn(p)

NextUpdate2 ==
    \/ UpdateStep("cli")
    \/ UpdateStep("serve")
    \/ SecondPasses

SpecUpdate2 == InitUpdate /\ [][NextUpdate2]_vars

\* the functions checked on their own: one call on arguments of PureCalls
PureCalls == CronCalls \cup RepoCalls
InitPure ==
    /\ StartProgram
    /\ serverCfg = ""
    /\ env = [frames |-> 0, sleeps |-> 0, live |-> FALSE, results |-> FALSE, conn |-> FALSE, missed |-> FALSE,
              root |-> TRUE, creds |-> TRUE, cfg |-> TRUE]
    /\ pin \in PureCalls
    /\ pout = NoCall

NextPure ==
    \/ GenerateCronEntries
    \/ GenerateCronEntry
    \/ ProcessRepoEntry

SpecPure == InitPure /\ [][NextPure]_vars

(***************************************************************************)
(* Properties of the serve process.                                        *)
(***************************************************************************)
Roots == {k \in DOMAIN stack : stack[k].root}
\* i minutes, as a mathematical value
MinutesToDurationExact(i) == <<i, 0, 0>>
ReceivesNow == messages # <<>> /\ nTaken' = nTaken + 1
Min(a, b) == IF a < b THEN a ELSE b
RECURSIVE Pow2(_)
Pow2(n) == IF n = 0 THEN 1 ELSE 2 * Pow2(n - 1)

\* C1: at most one action of the loop (a report cycle or an update started for
\* a timer fire or a message) is in progress at any time, and none is while
\* the loop is at its select: every running sendReport/updateAgent belongs to
\* the one call stack of that action.
C1_OneActionAtATime ==
    /\ Cardinality(Roots) <= 1
    /\ (dpc = "select" => stack = <<>>)
    /\ (stack # <<>> => stack[1].root)

\* C1 witness: an action runs while a tick and a message are pending and the
\* read loop is blocked on the full channel with a further message.
C1_Witness ==
    /\ dpc = "busy" /\ stack # <<>>
    /\ ticker.c = 1
    /\ Len(messages) = MsgCap
    /\ wpc = "send"

C3_SettingsUpdateNoReport ==
    [][ReceivesNow /\ Head(messages).kind = "settings_update"
            => stack' = <<>> /\ stack = <<>> /\ dpc' \in {"select", "panic"}]_vars

\* C3 witness: a settings_update with interval 2 has been handled.
C3_Witness ==
    /\ cause.kind = "settings_update" /\ cause.interval = 2
    /\ dpc = "select" /\ nDone = nTaken /\ nTaken >= 1

\* C4 as stated: a sendReport runs only for a timer fire, report_now,
\* update_agent or a forced update_notification.
C4_Original ==
    \A k \in DOMAIN stack : stack[k].fn = "sendReport" =>
        \/ cause.kind \in {"tick", "report_now", "update_agent"}
        \/ cause.kind = "update_notification" /\ cause.force

\* C4 amended: ... or it is the initial report runService sends on boot.
C4_ReportCauses ==
    \A k \in DOMAIN stack : stack[k].fn = "sendReport" =>
        \/ cause.kind \in {"boot", "tick", "report_now", "update_agent"}
        \/ cause.kind = "update_notification" /\ cause.force

\* C4 witness: the confirmation report of a forced update runs.
C4_Witness ==
    /\ Len(stack) = 2 /\ stack[1].fn = "updateAgent" /\ stack[2].fn = "sendReport"
    /\ cause.kind = "update_notification" /\ cause.force

\* C5: the step that receives a settings_update with interval <= 0 (0 is
\* also what an absent update_interval decodes to) leaves the ticker (period,
\* time of the next fire, pending tick) as it is and runs nothing.
C5_InvalidIntervalRejected ==
    [][ReceivesNow /\ Head(messages).kind = "settings_update"
                   /\ Head(messages).interval <= 0
            => ticker' = ticker /\ stack' = stack /\ dpc' = dpc]_vars

\* C5 witness: a settings_update with interval 0 or -1 has been handled
\* while a tick was pending and the period was half over.
C5_Witness ==
    /\ cause.kind = "settings_update" /\ cause.interval <= 0
    /\ dpc = "select" /\ nDone = nTaken
    /\ ticker.c = 1 /\ ticker.rem # ticker.d

\* C6 as stated: after a settings_update with interval i > 0 the ticker runs
\* with period i minutes, has not fired before i minutes have passed and has
\* fired exactly once when i minutes have passed.
C6_Original ==
    obs.i > 0 =>
        /\ dpc # "panic"
        /\ ticker.d = MinutesToDurationExact(obs.i)
        /\ (obs.elapsed < obs.i => obs.fires = 0)
        /\ (obs.elapsed = obs.i => obs.fires = 1)

\* C24 as stated: the serve process never dies of its timer, and whenever it
\* has a timer the period is strictly positive and is exactly the current
\* interval in minutes: one of the positive intervals the server can send or
\* the default of 60, and the interval of the latest settings_update with
\* interval > 0 once there has been one.
C24_Original ==
    /\ dpc # "panic"
    /\ ticker # NoTicker =>
           /\ DurPositive(ticker.d)
           /\ \E i \in {j \in Intervals : j > 0} \cup {DefaultInterval} :
                  ticker.d = MinutesToDurationExact(i)
    /\ obs.i > 0 => ticker.d = MinutesToDurationExact(obs.i)

\* C24, the state that refutes it: the latest settings_update carried a
\* positive interval whose nanoseconds do not fit in 64 bits, and the
\* process has died in time.NewTicker.
C24_DiesOfOverflow ==
    /\ dpc = "panic"
    /\ obs.i > 0
    /\ ~DurPositive(MinutesToDuration(obs.i))
    /\ ticker.d # MinutesToDurationExact(obs.i)

\* C7 as stated: the N-th sleep of wsLoop lasts min(2^(N-1), 30) seconds and
\* the backoff never exceeds 30 seconds.
C7_Original ==
    /\ backoff <= BackoffLimit
    /\ (nSleeps >= 1 => lastWait = Min(Pow2(nSleeps - 1), BackoffLimit))

\* C8: the backoff never decreases, and it is never below the wait that
\* preceded the latest successful dial.
C8_BackoffMonotonic ==
    [](okWait <= backoff) /\ [][backoff' >= backoff]_vars

\* C8 witness: a connection made after three sleeps (the last of 4 s) has
\* dropped, and wsLoop is about to sleep 8 s.
C8_Witness ==
    /\ wpc = "sleep" /\ okWait = 4 /\ lastWait = 4 /\ backoff = 8

(***************************************************************************)
(* Properties of updateAgent.                                              *)
(***************************************************************************)
Returning(p, reason) == At(p, "return") /\ UTop(p).reason = reason

C21_Original ==
    Returning("cli", "validation") => files = UTop("cli").fs0

\* C21, the state that refutes it: the call returns the validation error
\* with the temp file removed, and the backup path, which held nothing when
\* the call began, holds the copy made by copyFile.
C21_BackupLeftBehind ==
    /\ Returning("cli", "validation")
    /\ UTop("cli").removed
    /\ files[TempPath] = NoFile
    /\ UTop("cli").fs0[BackupPath(UTop("cli").ts)] = NoFile
    /\ files[BackupPath(UTop("cli").ts)] = UTop("cli").exe0

\* C10: right after a successful rename the backup path of this call holds
\* the executable as it was when the call began, and the executable path
\* holds the download.
C10_BackupAfterRename ==
    At("cli", "renamed") =>
        /\ files[BackupPath(UTop("cli").ts)] = UTop("cli").exe0
        /\ files[ExePath] = UTop("cli").data
        /\ UTop("cli").exe0 # NoFile

\* C10 witness: a second update, begun for the hint of the first one's
\* report in the same second, has renamed: its backup replaced the first.
C10_Witness ==
    /\ At("cli", "renamed") /\ Len(upd["cli"]) = 2
    /\ UTop("cli").exe0 # "v0" /\ UTop("cli").data # UTop("cli").exe0
    /\ UTop("cli").ts = upd["cli"][1].ts

\* the statements of a call that have succeeded
StepsDone(f) == {f.done[k] : k \in DOMAIN f.done}

\* C11: the statements of an update succeed in the order of the function
\* body (path, release metadata, asset, download, backup, temp file,
\* validation, rename), each after all before it; no file is created or
\* changed before the download of the same call has succeeded, and the
\* executable is replaced only after the validation of the same call has.
C11_StrictOrder ==
    /\ [](\A n \in DOMAIN upd["cli"] :
            LET f == upd["cli"][n]
            IN  /\ f.done = SubSeq(Steps, 1, Len(f.done))
                /\ f.pc \notin StepsDone(f)
                /\ (f.data # NoFile <=> "download" \in StepsDone(f)))
    /\ [][files' # files =>
            /\ {"path", "release", "download"} \subseteq StepsDone(UTop("cli"))
            /\ UTop("cli").data # NoFile]_vars
    /\ [][files'[ExePath] # files[ExePath] =>
            /\ "validate" \in StepsDone(UTop("cli"))
            /\ UTop("cli").pc = "rename"
            /\ files'[ExePath] = UTop("cli").data]_vars

\* C11 witness: every statement of a call has succeeded; the executable is
\* the download, which differs from the old one kept in the backup.
C11_Witness ==
    /\ At("cli", "renamed")
    /\ UTop("cli").done = SubSeq(Steps, 1, 8)
    /\ files[ExePath] = UTop("cli").data
    /\ files[ExePath] # UTop("cli").exe0
    /\ files[TempPath] = NoFile

\* C12: whichever statement made updateAgent return an error, the file at
\* the executable path is what it was when the call began.
C12_FailureKeepsExecutable ==
    \A n \in DOMAIN upd["cli"] :
        LET f == upd["cli"][n]
        IN  f.pc = "return" /\ f.reason # "" => files[ExePath] = f.exe0

\* C12 witness: the rename failed after backup, temp file and validation had
\* succeeded; the temp file could not be removed and still holds the download.
C12_Witness ==
    /\ Returning("cli", "rename")
    /\ ~UTop("cli").removed
    /\ files[TempPath] = UTop("cli").data
    /\ files[BackupPath(UTop("cli").ts)] = UTop("cli").exe0
    /\ files[ExePath] = UTop("cli").exe0

(***************************************************************************)
(* Properties of the serve process left to run.                            *)
(***************************************************************************)
UpdatesInFlight == {k \in DOMAIN stack : stack[k].fn = "updateAgent"}

\* C13 as stated: at most one call of updateAgent is in progress in the serve
\* process at any time.
C13_Original == Cardinality(UpdatesInFlight) <= 1

\* C15: wsLoop, once it is to sleep after a failed dial, a read error or a
\* connectOnce without a server, makes a further connect attempt, however
\* many it has made; and a tick pending while runService is at its select is
\* taken, whatever wsLoop is doing.
C15_ReconnectsForever ==
    /\ (wpc = "sleep") ~> (wpc = "connect")
    /\ (dpc = "select" /\ ticker.c = 1) ~> (dpc = "busy" /\ cause.kind = "tick")

\* C15 witness: after at least six sleeps, one of them following the loss of
\* an established connection, wsLoop connects again while the report of a
\* tick runs.
C15_Witness ==
    /\ wpc = "connect" /\ lastWait = 32 /\ okWait >= 1 /\ okWait < lastWait
    /\ dpc = "busy" /\ cause.kind = "tick"

\* C18 as stated: an action of the loop that has started returns, and
\* runService is back at its select.
C18_Original == (dpc = "busy") ~> (dpc = "select")

(***************************************************************************)
(* Properties of the dispatcher's error handling, of the decoding of       *)
(* frames and of the startup.                                              *)
(***************************************************************************)
Kinds == {"settings_update", "report_now", "update_agent", "update_notification"}
HandleMessage ==
    HandleSettingsUpdate \/ HandleReportNow \/ HandleUpdateAgent \/ HandleUpdateNotification

\* C14: the step in which the call made for a timer fire or a message
\* returns, with an error or without, puts runService back at its select and
\* changes nothing else (ticker period, time of the next fire, pending tick,
\* channel, wsLoop); after an error the process is at its select, and a
\* pending tick or message can be taken as after a success.
C14_FailureIsolated ==
    /\ [](cause.err = "err" =>
            /\ dpc = "select" /\ stack = <<>>
            /\ (ticker.c = 1 => ENABLED TakeTick)
            /\ (messages # <<>> => ENABLED HandleMessage))
    /\ [][dpc = "busy" /\ stack # <<>> /\ stack' = <<>> =>
            /\ dpc' = "select"
            /\ UNCHANGED <<ticker, messages, serverCfg, wpc, backoff, pend, nFrames, env>>
            /\ UNCHANGED <<nSent, nTaken, obs>>]_vars

\* C14 witness: the update for a forced update_notification has failed;
\* runService is at its select with a tick pending, part of the period gone.
C14_Witness ==
    /\ cause.kind = "update_notification" /\ cause.force /\ cause.err = "err"
    /\ dpc = "select" /\ nDone = nTaken
    /\ ticker.c = 1 /\ ticker.rem # ticker.d

\* a frame the read loop has no case for
Ignored(f) == ~f.json \/ f.type \notin Kinds

\* C16: reading a frame that does not decode, or whose type is none of the
\* four, leaves the read loop reading on the same connection and puts nothing
\* on the channel; only messages of the four kinds are ever sent or queued.
C16_UnknownFramesIgnored ==
    /\ [][\A f \in Frames : Ignored(f) /\ ReadFrame(f) =>
            /\ wpc = "read" /\ wpc' = "read"
            /\ UNCHANGED <<messages, pend, nSent, backoff, nSleeps>>]_vars
    /\ [](\A k \in DOMAIN messages : messages[k].kind \in Kinds)
    /\ [](wpc = "send" => pend.kind \in Kinds)

\* C16 witness: a frame has been read and ignored: nothing was sent, and
\* the read loop reads on, on the connection it dialled first.
C16_Witness ==
    /\ nFrames = 1 /\ nSent = 0 /\ messages = <<>>
    /\ wpc = "read" /\ pend = NoMsg /\ nSleeps = 0

\* serve has not got past its startup
NotStarted ==
    /\ dpc \in {"start", "exit"}
    /\ stack = <<>> /\ cause.kind = "none"
    /\ ticker = NoTicker
    /\ wpc = "off"

C19_SecondaryFailureNotEscalated ==
    /\ [](cause.sub = "err" => cause.err = "nil")
    /\ [][/\ stack # <<>> /\ Len(stack') < Len(stack)
          /\ Top.pc \in {"hint", "confirm"} /\ Top.sub = "err"
          => IF Len(stack) = 1
             THEN cause'.err = "nil" /\ dpc' = "select"
             ELSE stack'[Len(stack')].sub = "nil"]_vars

\* C19 witness: the update for update_agent has returned nil after its
\* confirmation report had failed.
C19_Witness ==
    /\ cause.kind = "update_agent" /\ cause.sub = "err" /\ cause.err = "nil"
    /\ dpc = "select" /\ nDone = nTaken

\* C20: the step that receives an update_notification calls updateAgent,
\* once, if force is set, and otherwise calls nothing and is back at the
\* select; while the action for an update_notification runs, force was set
\* and the one call runService made is that updateAgent.
C20_UpdateNotification ==
    /\ [][ReceivesNow /\ Head(messages).kind = "update_notification" =>
            IF Head(messages).force
            THEN stack' = <<Frame("updateAgent", TRUE)>> /\ dpc' = "busy"
            ELSE stack' = <<>> /\ dpc' = "select" /\ nDone' = nTaken']_vars
    /\ [](dpc = "busy" /\ cause.kind = "update_notification" =>
            /\ cause.force
            /\ Cardinality(Roots) = 1 /\ stack[1].root /\ stack[1].fn = "updateAgent")

\* C20 witness: an update_notification without force has been handled and
\* is the latest event: nothing runs and nothing has run for it.
C20_Witness ==
    /\ cause.kind = "update_notification" /\ ~cause.force /\ cause.err = "none"
    /\ dpc = "select" /\ stack = <<>> /\ nDone = nTaken /\ nTaken = 1

\* C25: the step that receives a report_now calls sendReport, once, at once
\* and whatever the phase of the ticker, and leaves the ticker as it is:
\* period, time to the next fire and pending tick; while the action for a
\* report_now runs, the one call runService made is that sendReport.
C25_ReportNow ==
    /\ [][ReceivesNow /\ Head(messages).kind = "report_now" =>
            /\ stack' = <<Frame("sendReport", TRUE)>> /\ dpc' = "busy"
            /\ ticker' = ticker]_vars
    /\ [](dpc = "busy" /\ cause.kind = "report_now" =>
            Cardinality(Roots) = 1 /\ stack[1].root /\ stack[1].fn = "sendReport")

\* C25 witness: the report of a report_now is running; it was taken in the
\* middle of a period with a tick of the ticker pending, which is still
\* pending.
C25_Witness ==
    /\ cause.kind = "report_now" /\ dpc = "busy"
    /\ stack = <<Frame("sendReport", TRUE)>>
    /\ ticker.c = 1 /\ ticker.rem # ticker.d
\* C30: the channel of the ticker never holds more than one tick, however
\* many fires came due while an action ran, and the step that takes the
\* tick for a report leaves none behind: after an action that lasted k
\* intervals one report is made for the ticks missed, and the next one waits
\* for a new fire.
C30_OneCatchUp ==
    /\ [](ticker.c \in 0..1)
    /\ [][dpc = "select" /\ dpc' = "busy" /\ cause'.kind = "tick" =>
            ticker.c = 1 /\ ticker'.c = 0 /\ stack' = <<Frame("sendReport", TRUE)>>]_vars

\* C30 witness: the action for a report_now has ended after two fires of the
\* ticker came due while it ran; one tick is pending.
C30_Witness ==
    /\ dpc = "select" /\ stack = <<>> /\ nDone = nTaken
    /\ cause.kind = "report_now" /\ cause.fires = 2
    /\ ticker.c = 1

(***************************************************************************)
(* Properties of the cron schedule.                                        *)
(***************************************************************************)
CronCalled == pout # NoCall /\ pout.fn \in {"generateCronEntries", "generateCronEntry"}

\* C22: for interval 60 every entry that generateCronEntries and
\* generateCronEntry return has the schedule "<m> * * * *", m the minute of
\* the current time written in decimal, and so fires at minute m of every
\* hour and at no other minute.
C22_HourlyAtCurrentMinute ==
    CronCalled /\ pin.updateInterval = HourlyInterval =>
        \A k \in DOMAIN pout.entries :
            /\ pout.entries[k].schedule = <<Itoa(pin.currentMinute), Star, Star, Star, Star>>
            /\ Atoi(pout.entries[k].schedule[1]) = pin.currentMinute
            /\ \A h \in 0..MaxHour : \A mi \in 0..MaxMinute :
                   Fires(pout.entries[k].schedule, h, mi) <=> mi = pin.currentMinute

\* C22 witness: generated at minute 23 for interval 60, the schedule of the
\* report entry reads "23 * * * *" and fires at 05:23 but not at 05:00.
C22_Witness ==
    /\ CronCalled /\ pin.fn = "generateCronEntries"
    /\ pin.updateInterval = HourlyInterval /\ pin.currentMinute = 23
    /\ pout.entries[1].schedule = <<<<"2", "3">>, Star, Star, Star, Star>>
    /\ Fires(pout.entries[1].schedule, 5, 23)
    /\ ~Fires(pout.entries[1].schedule, 5, 0)

(***************************************************************************)
(* Properties of processRepoEntry.                                         *)
(***************************************************************************)
RepoCalled == pout # NoCall /\ pout.fn = "processRepoEntry"
\* the URLs of an entry in the order of dnf.conf(5)
Candidates(entry) == entry.baseurls \o <<entry.metalink, entry.mirrorlist>>
Remote(url) == isValidRepoURL(url)

\* C23: processRepoEntry returns nothing for an entry whose enabled flag is
\* false; for an entry whose flag is true or unset it returns one repository
\* for each URL that isValidRepoURL accepts, in the order baseurls as listed,
\* then metalink, then mirrorlist, each named after the entry and enabled;
\* file:// URLs and the empty string are never among them.
C23_OnePerValidURL ==
    RepoCalled =>
        /\ pin.enabled = "false" => pout.repositories = <<>>
        /\ pin.enabled \in {Unset, "true"} =>
            /\ Len(pout.repositories) = Len(SelectSeq(Candidates(pin), Remote))
            /\ \A k \in DOMAIN pout.repositories :
                /\ pout.repositories[k].URL = SelectSeq(Candidates(pin), Remote)[k]
                /\ pout.repositories[k].Name = pin.id
                /\ pout.repositories[k].IsEnabled
                /\ pout.repositories[k].URL \notin {FileURL, NoURL}
        /\ ~isValidRepoURL(FileURL) /\ ~isValidRepoURL(NoURL)

\* C23 witness: an entry without an enabled key that lists a file:// URL and
\* an http URL and has a metalink and a mirrorlist yields three
\* repositories: the http baseurl, the metalink, the mirrorlist.
C23_Witness ==
    /\ RepoCalled
    /\ pin.enabled = Unset
    /\ pin.baseurls = <<FileURL, HttpURL>>
    /\ pin.metalink = HttpsURL /\ pin.mirrorlist = MirrorURL
    /\ Len(pout.repositories) = 3
    /\ pout.repositories[1].URL = HttpURL
    /\ pout.repositories[2].URL = HttpsURL
    /\ pout.repositories[3].URL = MirrorURL

(***************************************************************************)
(* Properties of the connection.                                           *)
(***************************************************************************)
ReadsFrame == \E f \in Frames : ReadFrame(f)

\* C26: the read deadline of an open connection is 90 seconds after the
\* dial or after the latest pong: a dial and a pong set it to 90 seconds
\* ahead, nothing else moves it ahead, and reading a data frame or handing
\* its message on leaves it where it is; once it has passed, ReadMessage
\* returns neither a frame nor a pong but an error, on which connectOnce
\* closes the connection and wsLoop goes to the sleep before its next
\* connect attempt.
C26_DeadlineSlidesOnPongs ==
    /\ [][Dial(TRUE) \/ Pong => dl' = ReadTimeout]_vars
    /\ [][dl' > dl => Dial(TRUE) \/ Pong]_vars
    /\ [][ReadsFrame \/ SendMsg => dl' = dl]_vars
    /\ [](wpc = "read" /\ dl = 0 /\ WsAlive =>
            ENABLED ReadError /\ ~ENABLED Pong /\ ~ENABLED ReadsFrame)
    /\ [][ReadError => wpc' = "sleep" /\ conns' = 0]_vars
    /\ [](wpc \in {"read", "send"} => dl \in 0..ReadTimeout)

\* C26 witness: the latest connection saw a pong and read a data frame, then
\* 90 seconds passed without another pong and it was closed at its read
\* deadline; wsLoop is at its sleep.
C26_Witness ==
    /\ wpc = "sleep" /\ conns = 0
    /\ connHist.pongs /\ connHist.timedOut
    /\ nFrames = 1

\* C27: at most one connection is open at any time, none while wsLoop is
\* between connections; only a successful dial of wsLoop opens one, with
\* none open, and after an earlier connection was closed only when a sleep
\* of wsLoop has ended since.
C27_OneConnection ==
    /\ [](conns \in 0..1)
    /\ [](wpc \in {"off", "connect", "sleep"} => conns = 0)
    /\ [][conns' > conns =>
            /\ Dial(TRUE)
            /\ conns = 0
            /\ connHist.closedAt >= 0 => nSleeps > connHist.closedAt]_vars

\* C27 witness: a second connection is open, the first one having been
\* closed two sleeps ago.
C27_Witness ==
    /\ conns = 1 /\ wpc = "read"
    /\ connHist.closedAt = 0 /\ nSleeps = 2

\* C28 as stated: at most one ping goroutine runs, and none once the read
\* loop of its connection has exited.
C28_Original ==
    /\ pingers <= 1
    /\ pingers <= conns

\* C28, the state that refutes it: wsLoop has connected twice and two ping
\* goroutines run, one of them for the connection that was closed.
C28_PingersPileUp ==
    /\ pingers = 2 /\ conns = 1
    /\ connHist.closedAt >= 0

(***************************************************************************)
(* Properties of updateAgent in two processes.                             *)
(***************************************************************************)
\* C29 as stated: a step that changes the content of the executable path is
\* the rename of a call of updateAgent, in either process, whose validation
\* has succeeded, and the new content is what that validation ran.
C29_Original ==
    [][files'[ExePath] # files[ExePath] =>
        \E p \in Procs :
            /\ At(p, "rename") /\ upd'[p] # upd[p]
            /\ "validate" \in StepsDone(UTop(p))
            /\ files'[ExePath] = UTop(p).validated]_vars

\* C29, the state that refutes it: a call has renamed the temp file onto the
\* executable path after its validation succeeded, and the executable is not
\* what it validated: it does not even run.
C29_UnvalidatedInstalled ==
    \E p \in Procs :
        /\ At(p, "renamed")
        /\ Runs(UTop(p).validated)
        /\ ~Runs(files[ExePath])
====
